---- MODULE Spec2Model ----
(***************************************************************************)
(* View-state derivation and route-driven data loading of the misirlou     *)
(* frontend: ManifestDisplay (manifest-detail/manifest-display),           *)
(* LandingPage (landing/landing-page) and SearchPageContainer              *)
(* (search/index), over the redux store they read through their selectors  *)
(* and write through dispatch.                                             *)
(***************************************************************************)
EXTENDS Integers, Sequences, FiniteSets, TLC

VARIABLES
    state,       \* the redux store: router (params, location), manifests, search
    page,        \* the container the router has mounted: "none", "landing", "search"
    inflight,    \* requests dispatched whose response has not been delivered yet
    issued,      \* every request dispatched so far, with its number
    nextReq,     \* the number the next dispatched request gets
    op,          \* the handler that ran last, with its argument
    dispatched,  \* the action descriptors that handler passed to dispatch, in order
    reqA, reqB,  \* two manifestRequest props handed to ManifestDisplay
    rendered     \* what ManifestDisplay rendered for reqA and for reqB

vars == <<state, page, inflight, issued, nextReq, op, dispatched, reqA, reqB, rendered>>
storeVars == <<state, inflight, issued, nextReq, op, dispatched>>
renderVars == <<reqA, reqB, rendered>>

----------------------------------------------------------------------------
(* JavaScript values *)

Undefined == "<undefined>"
Null == "<null>"

\* What `if (x)` / `!x` test: undefined, null and the empty string are falsy.
Truthy(x) == x \notin {Undefined, Null, ""}

----------------------------------------------------------------------------
(* Bounds of the model *)

\* Requests dispatched in one behaviour.
MaxReq == 2

ManifestIds == {"42", "7"}
Queries == {"cat", "dog"}
Values == {"v1", "v2"}
Errors == {"not found", "timeout"}

\* What the route can bind: an id, or none ("/").
RouteIds == ManifestIds \cup {Undefined}
\* What ?q= can hold: a query, the empty string, or nothing.
RouteQueries == Queries \cup {"", Undefined}
\* What ?m= can hold.
RouteFlags == {"1", Undefined}
\* What the search input can hand to onChange.
InputValues == Queries \cup {""}

----------------------------------------------------------------------------
(* AsyncResource and the resource map *)

PENDING == "PENDING"
SUCCESS == "SUCCESS"
ERROR == "ERROR"

\* What Map.get answers for a key the map does not hold.
NoResource == [status |-> Undefined]

\* Immutable.Map#get
MapGet(map, key) == IF key \in DOMAIN map THEN map[key] ELSE NoResource

\* Immutable.Map#set
MapSet(map, key, res) ==
    [k \in (DOMAIN map) \cup {key} |-> IF k = key THEN res ELSE map[k]]

EmptyMap == [k \in {} |-> NoResource]

\* The resource a request action creates under its key.
PendingResource(key, n) ==
    [key |-> key, status |-> PENDING, value |-> Null, error |-> Null, req |-> n]

----------------------------------------------------------------------------
(* manifest-detail/manifest-display *)

Loading == [branch |-> "loading", payload |-> Null]
ErrorAlert(error) == [branch |-> "error", payload |-> error]
ManifestViewer(manifestInfo) == [branch |-> "viewer", payload |-> manifestInfo]

ManifestDisplayLoadingFirst(req) ==
    IF req = NoResource \/ ~Truthy(req.value) THEN Loading
    ELSE IF req.status = ERROR THEN ErrorAlert(req.error)
    ELSE ManifestViewer(req.value)

\* ManifestDisplay.render
ManifestDisplayRender(req) ==
    IF req # NoResource /\ req.status = ERROR THEN ErrorAlert(req.error)
    ELSE IF req = NoResource \/ ~Truthy(req.value) THEN Loading
    ELSE ManifestViewer(req.value)

----------------------------------------------------------------------------
(* Action descriptors *)

\* ManifestActions.request({ id })
ManifestRequest(id) == [type |-> "MANIFEST_REQUEST", key |-> id]

\* Search.request({ query })
SearchRequest(query) == [type |-> "SEARCH_REQUEST", key |-> query]

\* The query object of a location
Query(q, m) == [q |-> q, m |-> m]
NoQuery == Query(Undefined, Undefined)

\* replaceState(null, pathname, query)
replaceState(pathname, query) ==
    [type |-> "REPLACE_STATE", pathname |-> pathname, query |-> query]

IsRequest(a) == a.type \in {"MANIFEST_REQUEST", "SEARCH_REQUEST"}

\* The request descriptors among those dispatched, in order
Requests(acts) == SelectSeq(acts, IsRequest)

----------------------------------------------------------------------------
(* The router: path patterns and the location *)

\* "/" and "/manifests/:manifestId"
LandingPathname(id) == IF id = Undefined THEN "/" ELSE "/manifests/" \o id

\* The path the search container is mounted on; the container only copies it.
SearchPathname == "/search"

Router(pathname, id, query) ==
    [params |-> [manifestId |-> id],
     location |-> [pathname |-> pathname, query |-> query]]

----------------------------------------------------------------------------
(* The store and the request pipeline behind dispatch.  A "world" is the    *)
(* store's state with the requests in flight.                               *)

World(st, fl, is, n) == [state |-> st, inflight |-> fl, issued |-> is, nextReq |-> n]

MapOf(st, kind) == IF kind = "manifest" THEN st.manifests ELSE st.search

WithMap(st, kind, map) ==
    IF kind = "manifest" THEN [st EXCEPT !.manifests = map]
    ELSE [st EXCEPT !.search = map]

KindOf(a) == IF a.type = "MANIFEST_REQUEST" THEN "manifest" ELSE "search"

\* A request action: a new PENDING resource under the key, superseding the one
\* there, and a request in flight.
ReduceRequest(w, a) ==
    LET kind == KindOf(a)
        r == [kind |-> kind, key |-> a.key, req |-> w.nextReq]
    IN World(WithMap(w.state, kind,
                     MapSet(MapOf(w.state, kind), a.key, PendingResource(a.key, w.nextReq))),
             w.inflight \cup {r}, w.issued \cup {r}, w.nextReq + 1)

\* replaceState: the location becomes pathname and query; the route's params stay.
ReduceReplaceState(w, a) ==
    [w EXCEPT !.state.router.location = [pathname |-> a.pathname, query |-> a.query]]

Reduce(w, a) ==
    IF a.type = "REPLACE_STATE" THEN ReduceReplaceState(w, a) ELSE ReduceRequest(w, a)

\* dispatch, once per descriptor, in order
RECURSIVE ReduceAll(_, _)
ReduceAll(w, acts) ==
    IF acts = <<>> THEN w ELSE ReduceAll(Reduce(w, Head(acts)), Tail(acts))

\* The resource a response turns a PENDING resource into.
Settled(res, outcome) ==
    IF outcome.status = SUCCESS
    THEN [res EXCEPT !.status = SUCCESS, !.value = outcome.payload]
    ELSE [res EXCEPT !.status = ERROR, !.error = outcome.payload]

Outcomes ==
    {[status |-> SUCCESS, payload |-> v] : v \in Values}
        \cup {[status |-> ERROR, payload |-> e] : e \in Errors}

ApplyAnyResponse(st, r, outcome) ==
    LET map == MapOf(st, r.kind)
    IN WithMap(st, r.kind,
               MapSet(map, r.key, Settled(PendingResource(r.key, r.req), outcome)))

\* A response is applied to the resource its request created, once; the response
\* to a request another request for the key has superseded is dropped.
ApplyResponse(st, r, outcome) ==
    LET map == MapOf(st, r.kind)
        res == MapGet(map, r.key)
    IN IF res # NoResource /\ res.req = r.req /\ res.status = PENDING
       THEN WithMap(st, r.kind, MapSet(map, r.key, Settled(res, outcome)))
       ELSE st

----------------------------------------------------------------------------
(* landing/landing-page *)

selectorAnyEntry(st, props) ==
    [manifestRequest |->
        IF DOMAIN st.manifests = {} THEN NoResource
        ELSE st.manifests[CHOOSE k \in DOMAIN st.manifests : TRUE]]

\* selector
selector(st, props) ==
    [manifestRequest |-> MapGet(st.manifests, props.params.manifestId)]

\* The props connect(selector) and the router hand to LandingPage.
LandingProps(st) ==
    LET own == [params |-> st.router.params, location |-> st.router.location]
    IN [params |-> own.params, location |-> own.location,
        manifestRequest |-> selector(st, own).manifestRequest]

\* this.manifestRequest: a field of the instance that nothing assigns.
thisManifestRequest == Undefined

\* LandingPage._loadManifest
loadManifest(id) == <<ManifestRequest(id)>>

\* LandingPage.componentDidMount
componentDidMount(props) ==
    IF Truthy(props.params.manifestId) /\ ~Truthy(thisManifestRequest)
    THEN loadManifest(props.params.manifestId)
    ELSE <<>>

componentWillReceivePropsCurrentId(props, nextProps) ==
    IF /\ Truthy(nextProps.params.manifestId)
       /\ nextProps.params.manifestId # props.params.manifestId
    THEN loadManifest(props.params.manifestId)
    ELSE <<>>

componentWillReceivePropsBothPresent(props, nextProps) ==
    IF /\ Truthy(nextProps.params.manifestId)
       /\ Truthy(props.params.manifestId)
       /\ nextProps.params.manifestId # props.params.manifestId
    THEN loadManifest(nextProps.params.manifestId)
    ELSE <<>>

\* LandingPage.componentWillReceiveProps
componentWillReceiveProps(props, nextProps) ==
    IF /\ Truthy(nextProps.params.manifestId)
       /\ nextProps.params.manifestId # props.params.manifestId
    THEN loadManifest(nextProps.params.manifestId)
    ELSE <<>>

NoPanel == [panel |-> "none", display |-> Loading]

\* LandingPage._renderManifest
renderManifest(props) ==
    IF Truthy(props.params.manifestId)
    THEN [panel |-> "display", display |-> ManifestDisplayRender(props.manifestRequest)]
    ELSE [panel |-> "helper", display |-> Loading]

\* LandingPage._renderLanding
renderLanding(props) ==
    [cascade |-> ~Truthy(props.location.query.q) /\ ~Truthy(props.location.query.m),
     searchResults |-> FALSE,
     rightPanel |-> NoPanel]

\* LandingPage._renderResults
renderResults(props) ==
    LET rightPanel == renderManifest(props)
    IN [cascade |-> FALSE,
        searchResults |-> Truthy(props.location.query.q) \/ Truthy(props.location.query.m),
        rightPanel |-> rightPanel]

LandingPageRenderIdOnly(props) ==
    IF Truthy(props.params.manifestId) THEN renderResults(props) ELSE renderLanding(props)

\* LandingPage.render
LandingPageRender(props) ==
    IF \/ Truthy(props.location.query.q)
       \/ Truthy(props.location.query.m)
       \/ Truthy(props.params.manifestId)
    THEN renderResults(props)
    ELSE renderLanding(props)

----------------------------------------------------------------------------
(* search/index *)

\* getQuery
getQuery(st) == st.router.location.query.q

\* getSearchResults
getSearchResults(st) == MapGet(st.search, getQuery(st))

\* getState
getState(st) ==
    [query |-> getQuery(st), results |-> getSearchResults(st),
     pathname |-> st.router.location.pathname]

loadQueryNoBlankCheck(props, query) ==
    <<replaceState(props.pathname, Query(query, Undefined)), SearchRequest(query)>>

\* SearchPageContainer._loadQuery
loadQuery(props, query) ==
    IF ~Truthy(query) THEN <<replaceState(props.pathname, NoQuery)>>
    ELSE <<replaceState(props.pathname, Query(query, Undefined)), SearchRequest(query)>>

\* SearchPageContainer.componentDidMount
searchComponentDidMount(props) == loadQuery(props, props.query)

\* The onChange handler SearchPageContainer.render gives the search input
onChange(props, value) == loadQuery(props, value)

----------------------------------------------------------------------------
(* The state machine *)

AboutPathname == "/about"

Op(name, arg) == [name |-> name, arg |-> arg]

Init ==
    /\ state = [router |-> Router(AboutPathname, Undefined, NoQuery),
                manifests |-> EmptyMap,
                search |-> EmptyMap]
    /\ page = "none"
    /\ inflight = {}
    /\ issued = {}
    /\ nextReq = 1
    /\ op = Op("init", Undefined)
    /\ dispatched = <<>>
    /\ reqA = NoResource
    /\ reqB = NoResource
    /\ rendered = <<>>

\* A handler that runs on the store state st0 and dispatches acts, in order.
Run(name, arg, st0, acts) ==
    LET w == ReduceAll(World(st0, inflight, issued, nextReq), acts)
    IN /\ nextReq <= MaxReq
       /\ state' = w.state
       /\ inflight' = w.inflight
       /\ issued' = w.issued
       /\ nextReq' = w.nextReq
       /\ op' = Op(name, arg)
       /\ dispatched' = acts
       /\ UNCHANGED renderVars

\* The router mounts LandingPage on "/" or "/manifests/:manifestId".
LandingMount ==
    \E id \in RouteIds, q \in RouteQueries, m \in RouteFlags :
        /\ page = "none"
        /\ page' = "landing"
        /\ LET st0 == [state EXCEPT !.router = Router(LandingPathname(id), id, Query(q, m))]
           IN Run("LandingPage.componentDidMount", id, st0,
                  componentDidMount(LandingProps(st0)))

\* The route changes, or connect passes new props, while LandingPage is mounted.
LandingReceiveProps ==
    \E id \in RouteIds, q \in RouteQueries, m \in RouteFlags :
        /\ page = "landing"
        /\ UNCHANGED page
        /\ LET st0 == [state EXCEPT !.router = Router(LandingPathname(id), id, Query(q, m))]
           IN Run("LandingPage.componentWillReceiveProps", id, st0,
                  componentWillReceiveProps(LandingProps(state), LandingProps(st0)))

\* The router mounts SearchPageContainer.
SearchMount ==
    \E q \in RouteQueries :
        /\ page = "none"
        /\ page' = "search"
        /\ LET st0 == [state EXCEPT !.router = Router(SearchPathname, Undefined,
                                                      Query(q, Undefined))]
           IN Run("SearchPageContainer.componentDidMount", q, st0,
                  searchComponentDidMount(getState(st0)))

\* The user edits the search input.
SearchInput ==
    \E value \in InputValues :
        /\ page = "search"
        /\ UNCHANGED page
        /\ Run("SearchPageContainer.onChange", value, state,
               onChange(getState(state), value))

\* The q parameter changes while SearchPageContainer is mounted (history
\* navigation, a link): the container has no hook that runs on new props.
SearchRouteChange ==
    \E q \in RouteQueries :
        /\ page = "search"
        /\ UNCHANGED page
        /\ Run("SearchPageContainer.routeChange", q,
               [state EXCEPT !.router.location.query.q = q], <<>>)

\* The router leaves the mounted container (for "/about", the upload flow).
Unmount ==
    /\ page # "none"
    /\ page' = "none"
    /\ state' = [state EXCEPT !.router = Router(AboutPathname, Undefined, NoQuery)]
    /\ op' = Op("unmount", Undefined)
    /\ dispatched' = <<>>
    /\ UNCHANGED <<inflight, issued, nextReq, renderVars>>

\* A response arrives.  The store applies it; connect then passes LandingPage,
\* when mounted, its new props.
Deliver ==
    \E r \in inflight, outcome \in Outcomes :
        LET st1 == ApplyResponse(state, r, outcome)
            acts == IF page = "landing"
                    THEN componentWillReceiveProps(LandingProps(state), LandingProps(st1))
                    ELSE <<>>
            w == ReduceAll(World(st1, inflight \ {r}, issued, nextReq), acts)
        IN /\ state' = w.state
           /\ inflight' = w.inflight
           /\ issued' = w.issued
           /\ nextReq' = w.nextReq
           /\ op' = Op("response", [request |-> r, outcome |-> outcome])
           /\ dispatched' = acts
           /\ UNCHANGED <<page, renderVars>>

Next ==
    \/ LandingMount
    \/ LandingReceiveProps
    \/ SearchMount
    \/ SearchInput
    \/ SearchRouteChange
    \/ Unmount
    \/ Deliver

Spec == Init /\ [][Next]_vars

----------------------------------------------------------------------------
(* ManifestDisplay alone, over every manifestRequest prop its propTypes     *)
(* admit: undefined, or a ManifestResource with any status, value and error *)

ManifestResources ==
    [key : {"42"}, status : {PENDING, SUCCESS, ERROR},
     value : Values \cup {Null}, error : Errors \cup {Null}, req : {1}]

InitRender ==
    /\ state = [router |-> Router(AboutPathname, Undefined, NoQuery),
                manifests |-> EmptyMap,
                search |-> EmptyMap]
    /\ page = "none"
    /\ inflight = {}
    /\ issued = {}
    /\ nextReq = 1
    /\ op = Op("init", Undefined)
    /\ dispatched = <<>>
    /\ reqA \in ManifestResources \cup {NoResource}
    /\ reqB \in ManifestResources \cup {NoResource}
    /\ rendered = <<>>

\* ManifestDisplay renders each of the two props.
Render ==
    /\ rendered = <<>>
    /\ rendered' = <<ManifestDisplayRender(reqA), ManifestDisplayRender(reqB)>>
    /\ UNCHANGED <<storeVars, page, reqA, reqB>>

NextRender == Render

SpecRender == InitRender /\ [][NextRender]_vars

----------------------------------------------------------------------------
(* Properties *)

manifestId == state.router.params.manifestId

\* The requests dispatched so far for a key
IssuedFor(kind, key) == {r \in issued : r.kind = kind /\ r.key = key}

\* The number of the request dispatched last for a key
Latest(kind, key) ==
    CHOOSE n \in {r.req : r \in IssuedFor(kind, key)} :
        \A r \in IssuedFor(kind, key) : r.req <= n

\* C1: when LandingPage mounts, it dispatches a manifest load request for the
\* route's manifestId if and only if the manifestId is present and the resource
\* map holds no resource for it; otherwise it dispatches nothing.
C1_MountLoadsOnlyMissing ==
    [][(page = "none" /\ page' = "landing") =>
        LET id == state'.router.params.manifestId
        IN dispatched' =
            IF Truthy(id) /\ MapGet(state.manifests, id) = NoResource
            THEN <<ManifestRequest(id)>>
            ELSE <<>>]_vars

\* C2: a route-parameter update delivered to a mounted LandingPage dispatches
\* exactly one load request, for the new manifestId, when that id is present
\* and differs from the previous one (absent included), and none otherwise; new
\* props that come with a response leave the id as it is and dispatch nothing.
C2_UpdateLoadsChangedId ==
    [][page = "landing" =>
        /\ op'.name = "LandingPage.componentWillReceiveProps" =>
              dispatched' =
                  IF /\ Truthy(state'.router.params.manifestId)
                     /\ state'.router.params.manifestId # manifestId
                  THEN <<ManifestRequest(state'.router.params.manifestId)>>
                  ELSE <<>>
        /\ op'.name = "response" => dispatched' = <<>>]_vars

\* An update took LandingPage to an id and one request, for that id, went out.
C2_Witness ==
    /\ page = "landing"
    /\ op.name = "LandingPage.componentWillReceiveProps"
    /\ dispatched = <<ManifestRequest(manifestId)>>

\* C3: whenever the search container's query changes to a different non-empty
\* value, through the search input or through any other change of the q
\* parameter while the container stays mounted, exactly one search request is
\* dispatched, keyed by the new query; none when the query is unchanged.
C3_QueryChangeLoadsOnce ==
    [][(page = "search" /\ page' = "search" /\ op'.name # "response") =>
        LET old == getQuery(state)
            new == getQuery(state')
        IN /\ (new # old /\ Truthy(new)) => Requests(dispatched') = <<SearchRequest(new)>>
           /\ new = old => Requests(dispatched') = <<>>]_vars

\* The resources of the manifests map
ManifestEntries == {state.manifests[k] : k \in DOMAIN state.manifests}

C5_StatusAloneSelectsBranch ==
    (/\ rendered # <<>>
     /\ reqA # NoResource
     /\ reqB # NoResource
     /\ reqA.status = reqB.status) => rendered[1].branch = rendered[2].branch

\* C6: LandingPage renders exactly one of three layouts, from its current
\* props: the recent-items cascade alone when q, m and manifestId are all
\* absent; the search-results panel with the detail panel when q or m is
\* present; the detail panel alone when only manifestId is present.
C6_ThreeLayouts ==
    page = "landing" =>
        LET props == LandingProps(state)
            hasQuery == Truthy(props.location.query.q) \/ Truthy(props.location.query.m)
            hasId == Truthy(props.params.manifestId)
            out == LandingPageRender(props)
        IN /\ (~hasQuery /\ ~hasId) =>
                 out.cascade /\ ~out.searchResults /\ out.rightPanel.panel = "none"
           /\ hasQuery =>
                 /\ ~out.cascade
                 /\ out.searchResults
                 /\ out.rightPanel.panel = (IF hasId THEN "display" ELSE "helper")
           /\ (~hasQuery /\ hasId) =>
                 ~out.cascade /\ ~out.searchResults /\ out.rightPanel.panel = "display"

\* LandingPage, having requested manifest 42, is taken to "/" with no query and
\* renders the cascade without a detail panel.
C6_Witness ==
    /\ page = "landing"
    /\ op.name = "LandingPage.componentWillReceiveProps"
    /\ "42" \in DOMAIN state.manifests
    /\ state.router.location = [pathname |-> "/", query |-> NoQuery]
    /\ LandingPageRender(LandingProps(state)).cascade
    /\ LandingPageRender(LandingProps(state)).rightPanel.panel = "none"

\* C7: loading a blank query in the search container only replaces the location
\* with the same pathname and no query parameters; loading a non-blank query
\* replaces the location with pathname and q=<query> and then dispatches the
\* search request for it; no search request is ever dispatched for a blank query.
C7_BlankQueryNormalised ==
    /\ op.name \in {"SearchPageContainer.componentDidMount", "SearchPageContainer.onChange"} =>
          /\ state.router.location.pathname = SearchPathname
          /\ IF ~Truthy(op.arg)
             THEN /\ dispatched = <<replaceState(SearchPathname, NoQuery)>>
                  /\ state.router.location.query = NoQuery
             ELSE /\ dispatched = <<replaceState(SearchPathname, Query(op.arg, Undefined)),
                                    SearchRequest(op.arg)>>
                  /\ state.router.location.query = Query(op.arg, Undefined)
    /\ \A i \in DOMAIN dispatched :
          dispatched[i].type = "SEARCH_REQUEST" => Truthy(dispatched[i].key)
    /\ \A r \in issued : r.kind = "search" => Truthy(r.key)
    /\ \A k \in DOMAIN state.search : Truthy(k)

\* The input was cleared after a search: only the location was replaced.
C7_Witness ==
    /\ op = Op("SearchPageContainer.onChange", "")
    /\ dispatched = <<replaceState(SearchPathname, NoQuery)>>
    /\ state.search # EmptyMap

C9_SelectorsReadCurrentKey ==
    LET props == LandingProps(state)
        res == selector(state, props).manifestRequest
        results == getState(state).results
    IN /\ (res = NoResource) <=> (IssuedFor("manifest", props.params.manifestId) = {})
       /\ res # NoResource => res.key = props.params.manifestId
       /\ (results = NoResource) <=> (IssuedFor("search", getQuery(state)) = {})
       /\ results # NoResource => results.key = getState(state).query
       /\ \A r \in issued : r.key \in DOMAIN MapOf(state, r.kind)

\* The query went from "cat" to a "dog" never requested: no results, and the
\* results for "cat" are still in the map.
C9_Witness ==
    /\ page = "search"
    /\ getState(state).query = "dog"
    /\ getState(state).results = NoResource
    /\ "cat" \in DOMAIN state.search

====
